---- MODULE Spec2Model ----
(***************************************************************************)
(* Model of the two scripts of virt-perf-scripts:                          *)
(*   block/RunFioTest.py                    (the fio sweep runner)         *)
(*   network-np/GenerateNetworkTestReport.py (the netperf report generator)*)
(*                                                                         *)
(* Encoding of Python values.  A value is a record [t, n, s, l]:           *)
(*   t  the Python type: "absent" (key not in the dict), "none", "str",    *)
(*      "int", "bool", "float", "list";                                    *)
(*   n  the number of an int, a bool (0/1) or a float (only integral       *)
(*      floats such as 1.0 are used);                                      *)
(*   s  the characters of a str, a sequence of ASCII codes (44 is ',');    *)
(*   l  the elements of a list, each the characters of a str.              *)
(***************************************************************************)
EXTENDS Integers, Sequences, FiniteSets, TLC

\* ------------------------------------------------------------------ bounds
MaxRounds == 2
MaxList == 2

\* ------------------------------------------------------- program constants
RoundsMax == 1000
NumjobsMax == 65535

\* ------------------------------------------------------------------ values
Absent == [t |-> "absent", n |-> 0, s |-> <<>>, l |-> <<>>]
NoneV == [t |-> "none", n |-> 0, s |-> <<>>, l |-> <<>>]
StrV(s) == [t |-> "str", n |-> 0, s |-> s, l |-> <<>>]
IntV(n) == [t |-> "int", n |-> n, s |-> <<>>, l |-> <<>>]
BoolV(n) == [t |-> "bool", n |-> n, s |-> <<>>, l |-> <<>>]
FloatV(n) == [t |-> "float", n |-> n, s |-> <<>>, l |-> <<>>]
ListV(l) == [t |-> "list", n |-> 0, s |-> <<>>, l |-> l]

\* isinstance(v, (unicode, str))
IsStr(v) == v.t = "str"
\* isinstance(v, int): bool is a subclass of int
IsInt(v) == v.t \in {"int", "bool"}
\* isinstance(v, (list, tuple))
IsList(v) == v.t = "list"
\* v in (0, 1): membership by ==, which holds across the numeric types
InZeroOne(v) == v.t \in {"int", "bool", "float"} /\ v.n \in {0, 1}
\* Python truthiness, as used by "if x:" in get_cli_params
Truthy(v) ==
    CASE v.t \in {"absent", "none"} -> FALSE
      [] v.t = "str" -> v.s # <<>>
      [] v.t = "list" -> v.l # <<>>
      [] OTHER -> v.n # 0

StrFields == {"backend", "driver", "fs", "filename", "runtime", "log_path"}
ListFields == {"rw_list", "bs_list", "iodepth_list"}
Fields == StrFields \cup ListFields \cup {"rounds", "direct", "numjobs"}

\* ------------------------------------------------------- RunFioTest.py
VARIABLES
    argv,          \* the option values click hands to cli(); Absent = None
    yaml_file,     \* the FioTestRunner section of ./virt_perf_scripts.yaml
    params,        \* the merged dict handed to run_fio_test
    fio_pc,        \* "cli", "init", "run", "exited", "idle"
    fio_exit,      \* the process's exit code, -1 while it runs
    runner,        \* the FioTestRunner's attributes (self.*)
    pos,           \* position of the itertools.product iterator
    invoked,       \* the cases handed to os.system, in order
    last_rc,       \* what the latest os.system returned
    dir_made,      \* os.makedirs(output_path) has run
    fio_secs,      \* the whole seconds an invocation of fio takes
    now,           \* the clock: seconds since the run started
    outputs        \* the --output path of each invocation, in order

fio_vars == <<argv, yaml_file, params, fio_pc, fio_exit, runner, pos,
              invoked, last_rc, dir_made, fio_secs, now, outputs>>

\* ------------------------------------------ GenerateNetworkTestReport.py
VARIABLES
    result_path,   \* --result_path was given
    listing,       \* os.listdir(result_path): the directory's entries, in order
    csv_env,       \* what opening and writing the CSV path did
    tmp_exists,    \* /tmp/netperf-report.tmp exists
    tmp_files,     \* the files in it
    rep_pc,        \* where the report generator is
    cur,           \* index into listing of the entry being handled
    filename,      \* the loop's variable filename
    raw_data_list, \* NetperfTestReporter.raw_data_list
    perf_kpi_list, \* NetperfTestReporter.perf_kpi_list
    df_report,     \* NetperfTestReporter.df_report, None as <<>>
    has_report,    \* df_report is not None
    csv_file,      \* the CSV path: "none", "empty" or "written"
    csv_rows,      \* the rows written to it
    errors,        \* the [ERROR] lines printed, in order
    load_rc,       \* what each stage returned: "notrun", "pass", "fail",
    calc_rc,       \*   or "raise" for an exception that leaves the stage
    csv_rc,
    rep_exit,      \* the process's exit code, -1 while it runs
    arg,           \* argument and result of a function called on its own
    ret

\* a second invocation of the report generator, on another directory: the
\* loop of its load_raw_data_from_netperf_logs, which shares the scratch
\* directory with the first
VARIABLES
    o_pc,          \* "off" (no second invocation), "extract", "read",
                   \*   "cleanup", "done"
    o_listing,     \* its os.listdir(result_path)
    o_cur,         \* its index into o_listing
    o_filename,    \* its loop variable filename
    o_raws         \* its raw_data_list

rep_in == <<result_path, listing, arg>>
tmp_vars == <<tmp_exists, tmp_files>>
loop_vars == <<cur, filename>>
list_vars == <<raw_data_list, perf_kpi_list>>
frame_vars == <<df_report, has_report>>
csv_vars == <<csv_env, csv_file, csv_rows>>
rc_vars == <<load_rc, calc_rc, csv_rc>>

rep_vars == <<rep_in, tmp_vars, loop_vars, list_vars, frame_vars, csv_vars,
              rc_vars, rep_pc, errors, rep_exit, ret>>

other_vars == <<o_pc, o_listing, o_cur, o_filename, o_raws>>

\* the class used as a library: the methods called one after another, on one
\* NetperfTestReporter or on a new one, within one process
VARIABLES
    calls          \* the method calls the caller has made

api_vars == <<calls>>

vars == <<fio_vars, rep_vars, other_vars, api_vars>>

NoParams == [f \in Fields |-> Absent]

\* str.split(','): the pieces between the commas, empty pieces included
RECURSIVE SplitFrom(_, _, _)
SplitFrom(s, i, piece) ==
    IF i > Len(s) THEN <<piece>>
    ELSE IF s[i] = 44 THEN <<piece>> \o SplitFrom(s, i + 1, <<>>)
    ELSE SplitFrom(s, i + 1, Append(piece, s[i]))

Split(s) == SplitFrom(s, 1, <<>>)

\* get_cli_params: an option is kept when it is truthy
get_cli_params(a) ==
    [f \in Fields |->
        IF ~Truthy(a[f]) THEN Absent
        ELSE IF f \in ListFields THEN ListV(Split(a[f].s))
        ELSE IF f = "rounds" THEN IntV(a[f].n)
        ELSE a[f]]

\* params = {}; params.update(yaml_params); params.update(cli_params)
Merge(y, c) == [f \in Fields |-> IF c[f].t # "absent" THEN c[f] ELSE y[f]]

\* FioTestRunner.__init__: the check of one field
FieldOk(f, v) ==
    /\ v.t # "absent"
    /\ CASE f \in StrFields -> IsStr(v)
         [] f \in ListFields -> IsList(v)
         [] f = "rounds" -> IsInt(v) /\ ~(v.n < 1)
         [] f = "direct" -> InZeroOne(v)
         [] f = "numjobs" -> IsInt(v)

Validate(p) == \A f \in Fields : FieldOk(f, p[f])

\* itertools.product(range(1, rounds + 1), bs_list, iodepth_list, rw_list):
\* the iterator's position is an index into each pool, 0 when exhausted
NRounds(r) == r["rounds"].n
NBs(r) == Len(r["bs_list"].l)
NIodepth(r) == Len(r["iodepth_list"].l)
NRw(r) == Len(r["rw_list"].l)

Exhausted == [rd |-> 0, b |-> 0, i |-> 0, r |-> 0]

split_fio_tests(r) ==
    IF NRounds(r) >= 1 /\ NBs(r) >= 1 /\ NIodepth(r) >= 1 /\ NRw(r) >= 1
    THEN [rd |-> 1, b |-> 1, i |-> 1, r |-> 1]
    ELSE Exhausted

AdvanceBsFastest(r, p) ==
    IF p.b < NBs(r) THEN [p EXCEPT !.b = p.b + 1]
    ELSE IF p.i < NIodepth(r) THEN [p EXCEPT !.i = p.i + 1, !.b = 1]
    ELSE IF p.r < NRw(r) THEN [p EXCEPT !.r = p.r + 1, !.i = 1, !.b = 1]
    ELSE IF p.rd < NRounds(r) THEN [rd |-> p.rd + 1, b |-> 1, i |-> 1, r |-> 1]
    ELSE Exhausted

\* the next tuple of the product: the rightmost pool advances first
Advance(r, p) ==
    IF p.r < NRw(r) THEN [p EXCEPT !.r = p.r + 1]
    ELSE IF p.i < NIodepth(r) THEN [p EXCEPT !.i = p.i + 1, !.r = 1]
    ELSE IF p.b < NBs(r) THEN [p EXCEPT !.b = p.b + 1, !.i = 1, !.r = 1]
    ELSE IF p.rd < NRounds(r) THEN [rd |-> p.rd + 1, b |-> 1, i |-> 1, r |-> 1]
    ELSE Exhausted

\* (rd, bs, iodepth, rw) = fio_param
CaseOf(r, p) ==
    [rd |-> p.rd, bs |-> r["bs_list"].l[p.b],
     iodepth |-> r["iodepth_list"].l[p.i], rw |-> r["rw_list"].l[p.r]]

\* ---------------------------------------------------- inputs of a run
\* "a", "b", ... : the j-th one-letter string after the letter `base`
ListOf(base, n, dup) == [j \in 1..n |-> <<IF dup THEN base ELSE base + j>>]

BaseYaml(nr, nb, ni, nw, dup) ==
    [f \in Fields |->
        CASE f \in StrFields -> StrV(<<120>>)
          [] f = "rounds" -> IntV(nr)
          [] f = "direct" -> IntV(1)
          [] f = "numjobs" -> IntV(1)
          [] f = "bs_list" -> ListV(ListOf(96, nb, dup))
          [] f = "iodepth_list" -> ListV(ListOf(48, ni, dup))
          [] f = "rw_list" -> ListV(ListOf(112, nw, dup))]

PlainYaml == BaseYaml(1, 1, 1, 1, FALSE)

\* list values that hold the '_' the log's name is joined with:
\* bs_list ['a_b', 'a'], iodepth_list ['c', 'b_c']
UnderscoreYaml ==
    [PlainYaml EXCEPT !["bs_list"] = ListV(<<<<97, 95, 98>>, <<97>>>>),
                      !["iodepth_list"] = ListV(<<<<99>>, <<98, 95, 99>>>>)]

\* what a defaults file can hold for a field
YamlValues(f) ==
    {Absent, NoneV, StrV(<<120>>), StrV(<<49>>), IntV(0), IntV(1), IntV(-1),
     FloatV(0), FloatV(1), FloatV(2), BoolV(0), BoolV(1),
     ListV(<<>>), ListV(<<<<120>>>>)}
    \cup (IF f = "rounds" THEN {IntV(RoundsMax), IntV(RoundsMax + 1)} ELSE {})
    \cup (IF f = "numjobs" THEN {IntV(NumjobsMax), IntV(NumjobsMax + 1)} ELSE {})

\* what click hands over for an option it accepted (lines 333-363)
CliValues(f) ==
    CASE f \in StrFields -> {StrV(<<>>), StrV(<<121>>)}
      [] f \in ListFields ->
            {StrV(<<>>), StrV(<<97>>), StrV(<<97, 44, 98>>), StrV(<<97, 44>>)}
      [] f = "rounds" -> {IntV(k) : k \in 1..MaxRounds}
      [] f = "direct" -> {StrV(<<48>>), StrV(<<49>>)}
      [] f = "numjobs" -> {IntV(1), IntV(NumjobsMax)}

AllFlags(nr, d, nj, ls) ==
    [f \in Fields |->
        CASE f \in StrFields -> StrV(<<121>>)
          [] f \in ListFields -> ls
          [] f = "rounds" -> IntV(nr)
          [] f = "direct" -> d
          [] f = "numjobs" -> nj]

FioInputs ==
    {[argv |-> NoParams, yaml |-> BaseYaml(nr, nb, ni, nw, dup)] :
        nr \in 1..MaxRounds, nb \in 0..MaxList, ni \in 0..MaxList,
        nw \in 0..MaxList, dup \in BOOLEAN}
    \cup {[argv |-> NoParams, yaml |-> UnderscoreYaml]}
    \cup UNION {{[argv |-> NoParams, yaml |-> [PlainYaml EXCEPT ![f] = v]] :
                    v \in YamlValues(f)} : f \in Fields}
    \cup {[argv |-> AllFlags(nr, d, nj, ls), yaml |-> y] :
            nr \in 1..MaxRounds, d \in CliValues("direct"),
            nj \in CliValues("numjobs"),
            ls \in CliValues("rw_list") \ {StrV(<<>>)},
            y \in {NoParams, PlainYaml}}
    \cup UNION {{[argv |-> [NoParams EXCEPT ![f] = v], yaml |-> y] :
                    v \in CliValues(f),
                    y \in {PlainYaml, [PlainYaml EXCEPT ![f] = Absent]}} :
                f \in Fields}

FioStart ==
    /\ \E c \in FioInputs : argv = c.argv /\ yaml_file = c.yaml
    /\ params = NoParams
    /\ fio_pc = "cli"
    /\ fio_exit = -1
    /\ runner = NoParams
    /\ pos = Exhausted
    /\ invoked = <<>>
    /\ last_rc = 0
    /\ dir_made = FALSE
    /\ fio_secs \in {0, 1}
    /\ now = 0
    /\ outputs = <<>>

\* ------------------------------------------------------ the log's path
\* '%s' % n for an int n
RECURSIVE Digits(_)
Digits(n) ==
    IF n < 10 THEN <<48 + n>> ELSE Append(Digits(n \div 10), 48 + (n % 10))

Decimal(n) == IF n < 0 THEN <<45>> \o Digits(-n) ELSE Digits(n)

\* '%s' % v: a str as it is, an int in decimal, True/False, 1.0
Str(v) ==
    CASE v.t = "str" -> v.s
      [] v.t = "int" -> Decimal(v.n)
      [] v.t = "bool" ->
            IF v.n = 1 THEN <<84, 114, 117, 101>>
            ELSE <<70, 97, 108, 115, 101>>
      [] v.t = "float" -> Decimal(v.n) \o <<46, 48>>
      [] OTHER -> <<>>

TwoDigits(n) == <<48 + (n \div 10), 48 + (n % 10)>>

\* time.strftime('%Y%m%d%H%M%S', time.localtime()) t seconds after a start
\* at 2018-08-08 12:00:00
strftime(t) ==
    <<50, 48, 49, 56, 48, 56, 48, 56>>
    \o TwoDigits(12 + (t \div 3600)) \o TwoDigits((t \div 60) % 60)
    \o TwoDigits(t % 60)

\* 'fio_%s_%s_%s_%s_%s_%s_%s_%s_%s.fiolog' % (backend, driver, fs, rw, bs,
\* iodepth, numjobs, rd, timestamp)
output_file(r, c, t) ==
    <<102, 105, 111>>
    \o <<95>> \o Str(r["backend"]) \o <<95>> \o Str(r["driver"])
    \o <<95>> \o Str(r["fs"]) \o <<95>> \o c.rw \o <<95>> \o c.bs
    \o <<95>> \o c.iodepth \o <<95>> \o Str(r["numjobs"])
    \o <<95>> \o Decimal(c.rd) \o <<95>> \o strftime(t)
    \o <<46, 102, 105, 111, 108, 111, 103>>

\* output = output_path + os.sep + output_file; expanduser leaves a path
\* that does not start with '~' as it is
output(r, c, t) == Str(r["log_path"]) \o <<47>> \o output_file(r, c, t)

\* ------------------------------------------------------------- actions
\* cli(): read the flags and the defaults file, merge, call run_fio_test
cli ==
    /\ fio_pc = "cli"
    /\ params' = Merge(yaml_file, get_cli_params(argv))
    /\ fio_pc' = "init"
    /\ UNCHANGED <<argv, yaml_file, fio_exit, runner, pos, invoked, last_rc,
                   dir_made, fio_secs, now, outputs>>
    /\ UNCHANGED <<rep_vars, other_vars, api_vars>>

\* FioTestRunner(params): exit(1) at the first field that fails its check;
\* then run_tests() creates the iterator
FioTestRunner_init ==
    /\ fio_pc = "init"
    /\ IF Validate(params)
       THEN /\ runner' = params
            /\ pos' = split_fio_tests(params)
            /\ fio_pc' = "run"
            /\ UNCHANGED fio_exit
       ELSE /\ fio_exit' = 1
            /\ fio_pc' = "exited"
            /\ UNCHANGED <<runner, pos>>
    /\ UNCHANGED <<argv, yaml_file, params, invoked, last_rc, dir_made,
                   fio_secs, now, outputs>>
    /\ UNCHANGED <<rep_vars, other_vars, api_vars>>

\* one turn of the loop of run_tests: make the directory, name the log by
\* the clock, build the command, os.system(command), whose status is ignored
\* and during which fio_secs seconds pass
run_tests ==
    /\ fio_pc = "run"
    /\ pos # Exhausted
    /\ dir_made' = TRUE
    /\ invoked' = Append(invoked, CaseOf(runner, pos))
    /\ \E rc \in {0, 1} : last_rc' = rc
    /\ outputs' = Append(outputs, output(runner, CaseOf(runner, pos), now))
    /\ now' = now + fio_secs
    /\ pos' = Advance(runner, pos)
    /\ UNCHANGED <<argv, yaml_file, params, fio_pc, fio_exit, runner,
                   fio_secs>>
    /\ UNCHANGED <<rep_vars, other_vars, api_vars>>

\* the loop is over: run_fio_test returns and cli() calls exit(0)
cli_exit ==
    /\ fio_pc = "run"
    /\ pos = Exhausted
    /\ fio_exit' = 0
    /\ fio_pc' = "exited"
    /\ UNCHANGED <<argv, yaml_file, params, runner, pos, invoked, last_rc,
                   dir_made, fio_secs, now, outputs>>
    /\ UNCHANGED <<rep_vars, other_vars, api_vars>>

NextFio == cli \/ FioTestRunner_init \/ run_tests \/ cli_exit

\* ==================================== GenerateNetworkTestReport.py
(***************************************************************************)
(* A cell is a value of a KPI tuple or of the report table, [k, s, n]:     *)
(*   k = "str": a string, s its ASCII codes;                               *)
(*   k = "num": a JSON number, n its value in units of 10^-5;              *)
(*   k = "unset": the key is not in the dict (NaN once in the DataFrame).  *)
(* The metadata the report sorts on (DRIVER, NAME, M_SIZE, RR_SIZE,        *)
(* ROUNDS) is taken to be strings, as the '0' the code itself puts into    *)
(* msize and rrsize is.                                                    *)
(***************************************************************************)
StrC(s) == [k |-> "str", s |-> s, n |-> 0]
NumC(n) == [k |-> "num", s |-> <<>>, n |-> n]
Unset == [k |-> "unset", s |-> <<>>, n |-> 0]

\* the literals '0' and 'NaN'
Zero == StrC(<<48>>)
NaN == StrC(<<78, 97, 78>>)

StreamTests == {"TCP_STREAM", "TCP_MAERTS", "UDP_STREAM", "UDP_MAERTS"}
RRTests == {"TCP_RR", "TCP_CRR", "UDP_RR"}
GoodUnit == "10^6bits/s"

\* perf_kpi = {}
EmptyKpi ==
    [driver |-> Unset, round |-> Unset, test |-> Unset, msize |-> Unset,
     rrsize |-> Unset, throughput |-> Unset, transrate |-> Unset,
     latency |-> Unset]

Raised == [res |-> "raise", kpi |-> EmptyKpi]
Failed == [res |-> "fail", kpi |-> EmptyKpi]
NotCalled == [res |-> "notcalled", kpi |-> EmptyKpi]

\* d[key] raises KeyError when key is in d.miss
Lacks(d, keys) == d.miss \cap keys # {}

KpiOfBlockNoZero(raw, kpi, b) ==
    IF b.name \in StreamTests
    THEN IF \/ Lacks(raw, {"M_SIZE"})
            \/ Lacks(b, {"THROUGHPUT_UNITS", "THROUGHPUT", "MEAN_LATENCY"})
            \/ b.unit # GoodUnit
         THEN Raised
         ELSE [res |-> "pass",
               kpi |-> [kpi EXCEPT !.msize = raw.m_size,
                                   !.throughput = b.throughput,
                                   !.transrate = NaN,
                                   !.latency = b.latency]]
    ELSE IF b.name \in RRTests
    THEN IF \/ Lacks(raw, {"RR_SIZE"})
            \/ Lacks(b, {"TRANSACTION_RATE", "MEAN_LATENCY"})
         THEN Raised
         ELSE [res |-> "pass",
               kpi |-> [kpi EXCEPT !.rrsize = raw.rr_size,
                                   !.throughput = NaN,
                                   !.transrate = b.transrate,
                                   !.latency = b.latency]]
    ELSE [res |-> "pass", kpi |-> kpi]

KpiOfBlockStrict(raw, kpi, b) ==
    IF b.name \in StreamTests
    THEN IF \/ Lacks(raw, {"M_SIZE"})
            \/ Lacks(b, {"THROUGHPUT_UNITS", "THROUGHPUT", "MEAN_LATENCY"})
            \/ b.unit # GoodUnit
         THEN Raised
         ELSE [res |-> "pass",
               kpi |-> [kpi EXCEPT !.msize = raw.m_size,
                                   !.rrsize = Zero,
                                   !.throughput = b.throughput,
                                   !.transrate = NaN,
                                   !.latency = b.latency]]
    ELSE IF b.name \in RRTests
    THEN IF \/ Lacks(raw, {"RR_SIZE"})
            \/ Lacks(b, {"TRANSACTION_RATE", "MEAN_LATENCY"})
         THEN Raised
         ELSE [res |-> "pass",
               kpi |-> [kpi EXCEPT !.msize = Zero,
                                   !.rrsize = raw.rr_size,
                                   !.throughput = NaN,
                                   !.transrate = b.transrate,
                                   !.latency = b.latency]]
    ELSE Raised

\* the body of "for name in series_meta.keys()": lines 197-225
KpiOfBlock(raw, kpi, b) ==
    IF b.name \in StreamTests
    THEN IF \/ Lacks(raw, {"M_SIZE"})
            \/ Lacks(b, {"THROUGHPUT_UNITS", "THROUGHPUT", "MEAN_LATENCY"})
            \/ b.unit # GoodUnit
         THEN Raised
         ELSE [res |-> "pass",
               kpi |-> [kpi EXCEPT !.msize = raw.m_size,
                                   !.rrsize = Zero,
                                   !.throughput = b.throughput,
                                   !.transrate = NaN,
                                   !.latency = b.latency]]
    ELSE IF b.name \in RRTests
    THEN IF \/ Lacks(raw, {"RR_SIZE"})
            \/ Lacks(b, {"TRANSACTION_RATE", "MEAN_LATENCY"})
         THEN Raised
         ELSE [res |-> "pass",
               kpi |-> [kpi EXCEPT !.msize = Zero,
                                   !.rrsize = raw.rr_size,
                                   !.throughput = NaN,
                                   !.transrate = b.transrate,
                                   !.latency = b.latency]]
    ELSE [res |-> "pass", kpi |-> kpi]

\* the loop over series_meta, in the dict's order
RECURSIVE KpiLoop(_, _, _)
KpiLoop(raw, kpi, i) ==
    IF i > Len(raw.series) THEN [res |-> "pass", kpi |-> kpi]
    ELSE LET r == KpiOfBlock(raw, kpi, raw.series[i])
         IN  IF r.res = "pass" THEN KpiLoop(raw, r.kpi, i + 1) ELSE r

\* _get_kpis_from_raw_data: (0, perf_kpi), (1, None) or an exception
get_kpis_from_raw_data(raw) ==
    IF raw.shape = "emptystr" THEN Failed
    ELSE IF raw.shape # "dict" THEN Raised
    ELSE IF Lacks(raw, {"metadata", "DRIVER", "ROUNDS", "NAME", "SERIES_META"})
    THEN Raised
    ELSE KpiLoop(raw,
                 [EmptyKpi EXCEPT !.driver = raw.driver, !.round = raw.rounds,
                                  !.test = raw.name],
                 1)

\* --------------------------------------------------- the report table
\* calculate_performance_kpis: the loop over raw_data_list; an exception
\* leaves it with the tuples appended so far
RECURSIVE CalcLoopSkipping(_, _, _)
CalcLoopSkipping(raws, kpis, i) ==
    IF i > Len(raws) THEN [rc |-> "pass", kpis |-> kpis]
    ELSE LET r == get_kpis_from_raw_data(raws[i])
         IN  IF r.res = "pass"
             THEN CalcLoopSkipping(raws, Append(kpis, r.kpi), i + 1)
             ELSE CalcLoopSkipping(raws, kpis, i + 1)

RECURSIVE CalcLoopFresh(_, _, _)
CalcLoopFresh(raws, kpis, i) ==
    LET start == IF i = 1 THEN <<>> ELSE kpis
    IN  IF i > Len(raws) THEN [rc |-> "pass", kpis |-> start]
        ELSE LET r == get_kpis_from_raw_data(raws[i])
             IN  IF r.res = "pass"
                 THEN CalcLoopFresh(raws, Append(start, r.kpi), i + 1)
                 ELSE [rc |-> r.res, kpis |-> start]

RECURSIVE CalcLoop(_, _, _)
CalcLoop(raws, kpis, i) ==
    IF i > Len(raws) THEN [rc |-> "pass", kpis |-> kpis]
    ELSE LET r == get_kpis_from_raw_data(raws[i])
         IN  IF r.res = "pass" THEN CalcLoop(raws, Append(kpis, r.kpi), i + 1)
             ELSE [rc |-> r.res, kpis |-> kpis]

KeyColumns == <<"Driver", "Test", "MSize", "RRSize", "Round">>
ValueColumns == {"Throughput", "TransRate", "Latency"}

\* pd.DataFrame(perf_kpi_list, columns=[...]) and rename: one row per tuple,
\* labelled 0..n-1; a key a tuple lacks is NaN
create_report_dataframe(kpis) ==
    [i \in 1..Len(kpis) |->
        [idx |-> i - 1, Driver |-> kpis[i].driver, Test |-> kpis[i].test,
         MSize |-> kpis[i].msize, RRSize |-> kpis[i].rrsize,
         Round |-> kpis[i].round, Throughput |-> kpis[i].throughput,
         TransRate |-> kpis[i].transrate, Latency |-> kpis[i].latency]]

\* Python's < on str: by code point, a proper prefix first
RECURSIVE StrLess(_, _)
StrLess(a, b) ==
    IF b = <<>> THEN FALSE
    ELSE IF a = <<>> THEN TRUE
    ELSE IF Head(a) # Head(b) THEN Head(a) < Head(b)
    ELSE StrLess(Tail(a), Tail(b))

\* the order sort_values puts on one column: NaN after every value
CellLess(a, b) ==
    IF a.k = "unset" THEN FALSE
    ELSE IF b.k = "unset" THEN TRUE
    ELSE IF a.k = "num" /\ b.k = "num" THEN a.n < b.n
    ELSE StrLess(a.s, b.s)

RECURSIVE RowLessFrom(_, _, _)
RowLessFrom(r1, r2, c) ==
    IF c > Len(KeyColumns) THEN FALSE
    ELSE IF CellLess(r1[KeyColumns[c]], r2[KeyColumns[c]]) THEN TRUE
    ELSE IF CellLess(r2[KeyColumns[c]], r1[KeyColumns[c]]) THEN FALSE
    ELSE RowLessFrom(r1, r2, c + 1)

\* by=['Driver', 'Test', 'MSize', 'RRSize', 'Round']
RowLess(r1, r2) == RowLessFrom(r1, r2, 1)

\* the place of row in a sorted table: after the rows not greater than it
RECURSIVE InsertRow(_, _)
InsertRow(sorted, row) ==
    IF sorted = <<>> THEN <<row>>
    ELSE IF RowLess(row, Head(sorted)) THEN <<row>> \o sorted
    ELSE <<Head(sorted)>> \o InsertRow(Tail(sorted), row)

RECURSIVE SortFrom(_, _, _)
SortFrom(rows, i, sorted) ==
    IF i > Len(rows) THEN sorted
    ELSE SortFrom(rows, i + 1, InsertRow(sorted, rows[i]))

\* df.sort_values(by=[...]): ascending, stable, NaN last; labels kept
sort_values(rows) == SortFrom(rows, 1, <<>>)

KeepIndex(rows) == rows

\* df.reset_index().drop(columns=['index']): labels 0..n-1 in the new order
reset_index(rows) == [i \in 1..Len(rows) |-> [rows[i] EXCEPT !.idx = i - 1]]

\* round(x, 4) of a number held in units of 10^-5, ties to even
Round4(n) ==
    LET q == n \div 10
        r == n % 10
    IN  IF r < 5 THEN q * 10
        ELSE IF r > 5 THEN (q + 1) * 10
        ELSE IF q % 2 = 0 THEN q * 10 ELSE (q + 1) * 10

\* a column of numbers and NaN has a float dtype; one holding a str is object
Numeric(rows, c) == \A i \in 1..Len(rows) : rows[i][c].k \in {"num", "unset"}

RoundCell(rows, c, cell) ==
    IF Numeric(rows, c) /\ cell.k = "num" THEN NumC(Round4(cell.n)) ELSE cell

\* df.round(4): every numeric column
round_dataframe(rows) ==
    [i \in 1..Len(rows) |->
        [idx |-> rows[i].idx,
         Driver |-> RoundCell(rows, "Driver", rows[i].Driver),
         Test |-> RoundCell(rows, "Test", rows[i].Test),
         MSize |-> RoundCell(rows, "MSize", rows[i].MSize),
         RRSize |-> RoundCell(rows, "RRSize", rows[i].RRSize),
         Round |-> RoundCell(rows, "Round", rows[i].Round),
         Throughput |-> RoundCell(rows, "Throughput", rows[i].Throughput),
         TransRate |-> RoundCell(rows, "TransRate", rows[i].TransRate),
         Latency |-> RoundCell(rows, "Latency", rows[i].Latency)]]

\* _format_report_dataframe: sort, reset the index, round
format_report_dataframe(rows) ==
    round_dataframe(reset_index(sort_values(rows)))

\* ------------------------------------------------ parsed log records
\* a parsed *.nplog.json: shape is "dict" for a JSON object, "emptystr" for
\* the JSON string "", "list" for any other JSON value; miss names the keys
\* the object lacks; series is metadata['SERIES_META'], in the dict's order
MkRaw(shape, miss, driver, rounds, name, m_size, rr_size, series) ==
    [shape |-> shape, miss |-> miss, driver |-> driver, rounds |-> rounds,
     name |-> name, m_size |-> m_size, rr_size |-> rr_size, series |-> series]

NotADict(shape) == MkRaw(shape, {}, Unset, Unset, Unset, Unset, Unset, <<>>)

\* one SERIES_META block; its numbers tell the blocks of a record apart
MkBlock(name, unit, miss, i) ==
    [name |-> name, unit |-> unit, miss |-> miss,
     throughput |-> NumC(94123450 + (3 * i)),
     transrate |-> NumC(500000 + (10 * i) + 4),
     latency |-> NumC(250 + i)]

MaxSeries == 2

OtherTest == "TCP_SENDFILE"
\* netperf tests of the two families that the code's tuples do not list
UnlistedTests == {"SCTP_STREAM", "SCTP_RR"}
TestNames == StreamTests \cup RRTests \cup {OtherTest} \cup UnlistedTests

\* the characters of a SERIES_META key
Chars(name) ==
    CASE name = "TCP_STREAM" ->
            <<84, 67, 80, 95, 83, 84, 82, 69, 65, 77>>
      [] name = "TCP_MAERTS" ->
            <<84, 67, 80, 95, 77, 65, 69, 82, 84, 83>>
      [] name = "UDP_STREAM" ->
            <<85, 68, 80, 95, 83, 84, 82, 69, 65, 77>>
      [] name = "UDP_MAERTS" ->
            <<85, 68, 80, 95, 77, 65, 69, 82, 84, 83>>
      [] name = "TCP_RR" ->
            <<84, 67, 80, 95, 82, 82>>
      [] name = "TCP_CRR" ->
            <<84, 67, 80, 95, 67, 82, 82>>
      [] name = "UDP_RR" ->
            <<85, 68, 80, 95, 82, 82>>
      [] name = "TCP_SENDFILE" ->
            <<84, 67, 80, 95, 83, 69, 78, 68, 70, 73, 76, 69>>
      [] name = "SCTP_STREAM" ->
            <<83, 67, 84, 80, 95, 83, 84, 82, 69, 65, 77>>
      [] name = "SCTP_RR" ->
            <<83, 67, 84, 80, 95, 82, 82>>
BlockKeys == {"THROUGHPUT_UNITS", "THROUGHPUT", "MEAN_LATENCY",
              "TRANSACTION_RATE"}
MetaKeys == {"metadata", "DRIVER", "ROUNDS", "NAME", "SERIES_META", "M_SIZE",
             "RR_SIZE"}

\* blocks of a one-key record: complete, wrong unit, or one key short
SingleBlocks ==
    {MkBlock(nm, u, {}, 1) : nm \in TestNames, u \in {GoodUnit, "bits/s"}}
    \cup {MkBlock(nm, GoodUnit, {k}, 1) : nm \in TestNames, k \in BlockKeys}

SeriesNames(s) == {s[j].name : j \in 1..Len(s)}

\* the names of the further keys of a record of several keys
MoreNames == {"TCP_STREAM", "UDP_MAERTS", "TCP_RR", "UDP_RR", OtherTest}

RECURSIVE SeriesOfLen(_)
SeriesOfLen(n) ==
    IF n = 0 THEN {<<>>}
    ELSE IF n = 1 THEN {<<b>> : b \in SingleBlocks}
    ELSE UNION {{Append(s, MkBlock(nm, u, {}, n)) :
                    nm \in MoreNames \ SeriesNames(s),
                    u \in {GoodUnit, "bits/s"}} :
                s \in {x \in SeriesOfLen(n - 1) :
                          \A j \in 1..Len(x) : x[j].miss = {}}}

\* a record of n keys; one of at most one key may lack a metadata key
KpiRecord(m, s) ==
    MkRaw("dict", m, StrC(<<118>>), StrC(<<49>>), StrC(<<84>>),
          StrC(<<54, 52>>), StrC(<<49, 44, 49>>), s)

KpiInputs ==
    {NotADict("emptystr"), NotADict("list")}
    \cup {KpiRecord(m, s) : m \in {{k} : k \in MetaKeys},
                            s \in SeriesOfLen(0) \cup SeriesOfLen(1)}
    \cup UNION {{KpiRecord({}, s) : s \in SeriesOfLen(n)} : n \in 0..MaxSeries}

\* ------------------------------------------------------- initial states
FioIdle ==
    /\ argv = NoParams
    /\ yaml_file = NoParams
    /\ params = NoParams
    /\ fio_pc = "idle"
    /\ fio_exit = -1
    /\ runner = NoParams
    /\ pos = Exhausted
    /\ invoked = <<>>
    /\ last_rc = 0
    /\ dir_made = FALSE
    /\ fio_secs = 0
    /\ now = 0
    /\ outputs = <<>>

NoFile == [dir |-> "none", base |-> 0, suffix |-> "none"]

\* a fresh process: the class attributes are [], [] and None
RepStart(given, l, te, pc, raws, kpis, a) ==
    /\ result_path = given
    /\ listing = l
    /\ csv_env = "untried"
    /\ tmp_exists = te
    /\ tmp_files = {}
    /\ rep_pc = pc
    /\ cur = 1
    /\ filename = NoFile
    /\ raw_data_list = raws
    /\ perf_kpi_list = kpis
    /\ df_report = <<>>
    /\ has_report = FALSE
    /\ csv_file = "none"
    /\ csv_rows = <<>>
    /\ errors = <<>>
    /\ load_rc = "notrun"
    /\ calc_rc = "notrun"
    /\ csv_rc = "notrun"
    /\ rep_exit = -1
    /\ arg = a
    /\ ret = NotCalled
    /\ calls = 0

\* no second invocation
OtherOff ==
    /\ o_pc = "off"
    /\ o_listing = <<>>
    /\ o_cur = 1
    /\ o_filename = NoFile
    /\ o_raws = <<>>

RepIdle ==
    /\ RepStart(FALSE, <<>>, FALSE, "idle", <<>>, <<>>, NotADict("list"))
    /\ OtherOff

InitFio == FioStart /\ RepIdle

\* ---------------------------------------- _get_kpis_from_raw_data alone
InitKpi ==
    /\ FioIdle
    /\ \E a \in KpiInputs :
            RepStart(FALSE, <<>>, FALSE, "call", <<>>, <<>>, a)
    /\ OtherOff

call_get_kpis ==
    /\ rep_pc = "call"
    /\ ret' = get_kpis_from_raw_data(arg)
    /\ rep_pc' = "returned"
    /\ UNCHANGED <<rep_in, tmp_vars, loop_vars, list_vars, frame_vars,
                   csv_vars, rc_vars, errors, rep_exit>>
    /\ UNCHANGED <<fio_vars, other_vars, api_vars>>

NextKpi == call_get_kpis

SpecKpi == InitKpi /\ [][NextKpi]_vars

SpecFio == InitFio /\ [][NextFio]_vars

\* ---------------------------------------------- the report generator
MaxFiles == 2
MaxRows == 3

TCP_RR == <<84, 67, 80, 95, 82, 82>>
TCP_STREAM == <<84, 67, 80, 95, 83, 84, 82, 69, 65, 77>>

\* the log of a TCP_STREAM test, of a TCP_RR test, of a test of neither family
StreamRaw(d, r, m, u) ==
    MkRaw("dict", {"RR_SIZE"}, StrC(d), StrC(r), StrC(TCP_STREAM), StrC(m),
          Unset, <<MkBlock("TCP_STREAM", u, {}, 1)>>)

RRRaw(d, r, rr) ==
    MkRaw("dict", {"M_SIZE"}, StrC(d), StrC(r), StrC(TCP_RR), Unset, StrC(rr),
          <<MkBlock("TCP_RR", GoodUnit, {}, 1)>>)

OtherRaw(d, r) ==
    MkRaw("dict", {}, StrC(d), StrC(r), StrC(<<88>>), StrC(<<54, 52>>),
          StrC(<<49, 44, 49>>), <<MkBlock(OtherTest, GoodUnit, {}, 1)>>)

GoodRaws ==
    {StreamRaw(<<118>>, <<50>>, <<54, 52>>, GoodUnit),
     StreamRaw(<<118>>, <<49, 48>>, <<49, 48, 50, 52>>, GoodUnit),
     RRRaw(<<118>>, <<50>>, <<49, 44, 49>>)}

\* records on which the extraction fails: wrong unit, no DRIVER, ""
BadRaws ==
    {StreamRaw(<<118>>, <<50>>, <<54, 52>>, "bits/s"),
     [RRRaw(<<118>>, <<50>>, <<49, 44, 49>>) EXCEPT !.miss = {"DRIVER"}],
     NotADict("emptystr")}

\* a record whose SERIES_META is {}
NoSeriesRaw == [OtherRaw(<<117>>, <<50>>) EXCEPT !.series = <<>>]

PipelineRaws ==
    GoodRaws \cup BadRaws \cup {OtherRaw(<<118>>, <<50>>), NoSeriesRaw}

\* what open() and json.load() make of a file
Parsed(raw) == [read |-> "ok", data |-> raw]
Unreadable == [read |-> "ioerror", data |-> NotADict("list")]
BadJson == [read |-> "badjson", data |-> NotADict("list")]

\* a directory entry <base><suffix>; for an archive, member says what it
\* holds: "own" the expected <base>.nplog.json, "other" a log of another
\* name, "none" nothing.  shellword: the entry's path, result_path included,
\* is a single word to the shell (no blank, no metacharacter)
Entry(b, suffix, isfile, member, file) ==
    [base |-> b, suffix |-> suffix, isfile |-> isfile, member |-> member,
     file |-> file, shellword |-> TRUE]

EntryKinds(b) ==
    {Entry(b, "nplog", TRUE, "none", c) :
        c \in {Parsed(r) : r \in PipelineRaws} \cup {Unreadable, BadJson}}
    \cup {Entry(b, "targz", TRUE, "own", c) :
            c \in {Parsed(StreamRaw(<<119>>, <<50>>, <<54, 52>>, GoodUnit)),
                   Parsed(StreamRaw(<<119>>, <<50>>, <<54, 52>>, "bits/s")),
                   BadJson}}
    \cup {[Entry(b, "targz", TRUE, "own",
                 Parsed(StreamRaw(<<119>>, <<50>>, <<54, 52>>, GoodUnit)))
             EXCEPT !.shellword = FALSE],
          [Entry(b, "nplog", TRUE, "none",
                 Parsed(StreamRaw(<<119>>, <<50>>, <<54, 52>>, GoodUnit)))
             EXCEPT !.shellword = FALSE],
          Entry(b, "targz", TRUE, "other",
                Parsed(RRRaw(<<119>>, <<50>>, <<49, 44, 49>>))),
          Entry(b, "targz", TRUE, "none", Unreadable),
          Entry(b, "targz", FALSE, "none", Unreadable),
          Entry(b, "nplog", FALSE, "none", Unreadable),
          Entry(b, "other", TRUE, "none", Unreadable)}

RECURSIVE ListingsOfLen(_)
ListingsOfLen(n) ==
    IF n = 0 THEN {<<>>}
    ELSE {Append(l, e) : l \in ListingsOfLen(n - 1), e \in EntryKinds(n)}

Listings == UNION {ListingsOfLen(n) : n \in 0..MaxFiles}

InitReport ==
    /\ FioIdle
    /\ \E given \in BOOLEAN, l \in Listings, te \in BOOLEAN :
        /\ given \/ (l = <<>> /\ ~te)
        /\ RepStart(given, l, te, "cli", <<>>, <<>>, NotADict("list"))
    /\ OtherOff

\* cli(): without --result_path, an error and exit(1)
rep_cli ==
    /\ rep_pc = "cli"
    /\ IF result_path
       THEN rep_pc' = "extract" /\ UNCHANGED <<errors, rep_exit>>
       ELSE /\ rep_pc' = "exited"
            /\ errors' = Append(errors, "parameter")
            /\ rep_exit' = 1
    /\ UNCHANGED <<rep_in, tmp_vars, loop_vars, list_vars, frame_vars,
                   csv_vars, rc_vars, ret>>
    /\ UNCHANGED <<fio_vars, other_vars, api_vars>>

\* os.system('tar xf {1} -C {0}'.format(tmpfolder, filename)): the files
\* in the scratch directory afterwards.  The path is put into the command
\* line unquoted: unless it is one shell word tar is handed other arguments
\* and extracts nothing
TarExtract(e, files) ==
    IF ~e.shellword THEN files
    ELSE CASE e.member = "own" ->
                {f \in files : f.base # e.base}
                \cup {[base |-> e.base, file |-> e.file]}
           [] e.member = "other" ->
                {f \in files : f.base # 0} \cup {[base |-> 0, file |-> e.file]}
           [] OTHER -> files

\* lines 138-146: the entry's path; an archive is extracted into the scratch
\* directory and the path becomes that of the log expected in it
load_extract ==
    /\ rep_pc = "extract"
    /\ cur <= Len(listing)
    /\ LET e == listing[cur]
       IN  IF e.suffix = "targz" /\ e.isfile
           THEN /\ tmp_exists' = TRUE
                /\ tmp_files' = TarExtract(e, tmp_files)
                /\ filename' =
                     [dir |-> "tmp", base |-> e.base, suffix |-> "nplog"]
           ELSE /\ filename' =
                     [dir |-> "result", base |-> e.base, suffix |-> e.suffix]
                /\ UNCHANGED tmp_vars
    /\ rep_pc' = "read"
    /\ UNCHANGED <<rep_in, cur, list_vars, frame_vars, csv_vars, rc_vars,
                   errors, rep_exit, ret>>
    /\ UNCHANGED <<fio_vars, other_vars, api_vars>>

\* os.path.isfile(filename), for the path made from the entry e
IsFileOf(fn, e) ==
    IF fn.dir = "tmp"
    THEN tmp_exists /\ \E f \in tmp_files : f.base = fn.base
    ELSE e.isfile

FileOf(fn, e) ==
    IF fn.dir = "tmp"
    THEN (CHOOSE f \in tmp_files : f.base = fn.base).file
    ELSE e.file

IsFile(fn) == IsFileOf(fn, listing[cur])

FileAt(fn) == FileOf(fn, listing[cur])

get_raw_data_unchecked(file) == [result |-> 0, raw |-> file.data]

\* _get_raw_data_from_netperf_log: (0, raw_data), or (1, None) with an error
\* printed when open() or json.load() raises
get_raw_data_from_netperf_log(file) ==
    IF file.read = "ok" THEN [result |-> 0, raw |-> file.data]
    ELSE [result |-> 1, raw |-> NotADict("list")]

\* lines 149-153: a file named *.nplog.json is parsed and, parsed, appended
load_read ==
    /\ rep_pc = "read"
    /\ IF filename.suffix = "nplog" /\ IsFile(filename)
       THEN LET r == get_raw_data_from_netperf_log(FileAt(filename))
            IN  IF r.result = 0
                THEN /\ raw_data_list' = Append(raw_data_list, r.raw)
                     /\ UNCHANGED errors
                ELSE /\ errors' = Append(errors, "json")
                     /\ UNCHANGED raw_data_list
       ELSE UNCHANGED <<raw_data_list, errors>>
    /\ rep_pc' = "cleanup"
    /\ UNCHANGED <<rep_in, tmp_vars, loop_vars, perf_kpi_list, frame_vars,
                   csv_vars, rc_vars, rep_exit, ret>>
    /\ UNCHANGED <<fio_vars, other_vars, api_vars>>

NoCleanup == UNCHANGED tmp_vars

\* line 156: [ -e tmpfolder ] && rm -rf tmpfolder
Cleanup == tmp_exists' = FALSE /\ tmp_files' = {}

load_cleanup ==
    /\ rep_pc = "cleanup"
    /\ Cleanup
    /\ cur' = cur + 1
    /\ rep_pc' = "extract"
    /\ UNCHANGED <<rep_in, filename, list_vars, frame_vars, csv_vars, rc_vars,
                   errors, rep_exit, ret>>
    /\ UNCHANGED <<fio_vars, other_vars, api_vars>>

\* line 158: the listing is over, return 0
load_return ==
    /\ rep_pc = "extract"
    /\ cur > Len(listing)
    /\ load_rc' = "pass"
    /\ rep_pc' = "calc"
    /\ UNCHANGED <<rep_in, tmp_vars, loop_vars, list_vars, frame_vars,
                   csv_vars, calc_rc, csv_rc, errors, rep_exit, ret>>
    /\ UNCHANGED <<fio_vars, other_vars, api_vars>>

\* calculate_performance_kpis and the caller's "if return_value: exit(1)";
\* an exception of the extraction is caught nowhere and ends the process
\* with status 1
calculate_performance_kpis ==
    /\ rep_pc = "calc"
    /\ LET r == CalcLoop(raw_data_list, perf_kpi_list, 1)
       IN  /\ perf_kpi_list' = r.kpis
           /\ calc_rc' = r.rc
           /\ IF r.rc = "pass"
              THEN rep_pc' = "frame" /\ UNCHANGED rep_exit
              ELSE rep_pc' = "exited" /\ rep_exit' = 1
    /\ UNCHANGED <<rep_in, tmp_vars, loop_vars, raw_data_list, frame_vars,
                   csv_vars, load_rc, csv_rc, errors, ret>>
    /\ UNCHANGED <<fio_vars, other_vars, api_vars>>

\* generate_report_dataframe: create, then format
generate_report_dataframe ==
    /\ rep_pc = "frame"
    /\ df_report' =
         format_report_dataframe(create_report_dataframe(perf_kpi_list))
    /\ has_report' = TRUE
    /\ rep_pc' = "csv"
    /\ UNCHANGED <<rep_in, tmp_vars, loop_vars, list_vars, csv_vars, rc_vars,
                   errors, rep_exit, ret>>
    /\ UNCHANGED <<fio_vars, other_vars, api_vars>>

CsvAlwaysPass(env) == "pass"

\* what report_dataframe_to_csv returns when open() and write() do env
CsvResult(env) == IF env = "ok" THEN "pass" ELSE "fail"

\* report_dataframe_to_csv and the caller's exit: open() may fail, and so
\* may write() once open() has made the file
report_dataframe_to_csv ==
    /\ rep_pc = "csv"
    /\ \E env \in {"ok", "open_fails", "write_fails"} :
        /\ csv_env' = env
        /\ csv_rc' = CsvResult(env)
        /\ csv_file' = CASE env = "ok" -> "written"
                         [] env = "write_fails" -> "empty"
                         [] OTHER -> csv_file
        /\ csv_rows' = IF env = "ok" THEN df_report ELSE csv_rows
        /\ errors' = IF env = "ok" THEN errors ELSE Append(errors, "csv")
        /\ rep_exit' = IF CsvResult(env) = "pass" THEN 0 ELSE 1
    /\ rep_pc' = "exited"
    /\ UNCHANGED <<rep_in, tmp_vars, loop_vars, list_vars, frame_vars,
                   load_rc, calc_rc, ret>>
    /\ UNCHANGED <<fio_vars, other_vars, api_vars>>

NextReport ==
    \/ rep_cli
    \/ load_extract
    \/ load_read
    \/ load_cleanup
    \/ load_return
    \/ calculate_performance_kpis
    \/ generate_report_dataframe
    \/ report_dataframe_to_csv

SpecReport == InitReport /\ [][NextReport]_vars

\* ------------------------------------------ two invocations at once
\* the same loop, run by the second invocation on its own directory; the
\* scratch directory is the one path /tmp/netperf-report.tmp for both
other_extract ==
    /\ o_pc = "extract"
    /\ o_cur <= Len(o_listing)
    /\ LET e == o_listing[o_cur]
       IN  IF e.suffix = "targz" /\ e.isfile
           THEN /\ tmp_exists' = TRUE
                /\ tmp_files' = TarExtract(e, tmp_files)
                /\ o_filename' =
                     [dir |-> "tmp", base |-> e.base, suffix |-> "nplog"]
           ELSE /\ o_filename' =
                     [dir |-> "result", base |-> e.base, suffix |-> e.suffix]
                /\ UNCHANGED tmp_vars
    /\ o_pc' = "read"
    /\ UNCHANGED <<o_listing, o_cur, o_raws>>
    /\ UNCHANGED <<rep_in, loop_vars, list_vars, frame_vars, csv_vars,
                   rc_vars, rep_pc, errors, rep_exit, ret>>
    /\ UNCHANGED <<fio_vars, api_vars>>

other_read ==
    /\ o_pc = "read"
    /\ LET e == o_listing[o_cur]
       IN  IF o_filename.suffix = "nplog" /\ IsFileOf(o_filename, e)
           THEN LET r == get_raw_data_from_netperf_log(FileOf(o_filename, e))
                IN  o_raws' = IF r.result = 0 THEN Append(o_raws, r.raw)
                              ELSE o_raws
           ELSE UNCHANGED o_raws
    /\ o_pc' = "cleanup"
    /\ UNCHANGED <<o_listing, o_cur, o_filename>>
    /\ UNCHANGED rep_vars
    /\ UNCHANGED <<fio_vars, api_vars>>

other_cleanup ==
    /\ o_pc = "cleanup"
    /\ Cleanup
    /\ o_cur' = o_cur + 1
    /\ o_pc' = "extract"
    /\ UNCHANGED <<o_listing, o_filename, o_raws>>
    /\ UNCHANGED <<rep_in, loop_vars, list_vars, frame_vars, csv_vars,
                   rc_vars, rep_pc, errors, rep_exit, ret>>
    /\ UNCHANGED <<fio_vars, api_vars>>

\* its load returns 0; its later stages touch nothing the two share
other_return ==
    /\ o_pc = "extract"
    /\ o_cur > Len(o_listing)
    /\ o_pc' = "done"
    /\ UNCHANGED <<o_listing, o_cur, o_filename, o_raws>>
    /\ UNCHANGED rep_vars
    /\ UNCHANGED <<fio_vars, api_vars>>

\* the directories of the two invocations: archives that hold their log
\* (one under a path with a blank), an archive that holds none, a plain log
RaceEntryKinds(b) ==
    {Entry(b, "targz", TRUE, "own",
           Parsed(StreamRaw(<<119>>, <<50>>, <<54, 52>>, GoodUnit))),
     [Entry(b, "targz", TRUE, "own",
            Parsed(StreamRaw(<<119>>, <<50>>, <<54, 52>>, GoodUnit)))
        EXCEPT !.shellword = FALSE],
     Entry(b, "targz", TRUE, "none", Unreadable),
     Entry(b, "nplog", TRUE, "none",
           Parsed(RRRaw(<<118>>, <<50>>, <<49, 44, 49>>)))}

OtherEntryKinds(b) ==
    {Entry(b, "targz", TRUE, "own",
           Parsed(StreamRaw(<<122>>, <<50>>, <<54, 52>>, GoodUnit))),
     Entry(b, "nplog", TRUE, "none",
           Parsed(RRRaw(<<122>>, <<50>>, <<49, 44, 49>>)))}

RECURSIVE RaceListingsOfLen(_)
RaceListingsOfLen(n) ==
    IF n = 0 THEN {<<>>}
    ELSE {Append(l, e) : l \in RaceListingsOfLen(n - 1),
                         e \in RaceEntryKinds(n)}

RECURSIVE OtherListingsOfLen(_)
OtherListingsOfLen(n) ==
    IF n = 0 THEN {<<>>}
    ELSE {Append(l, e) : l \in OtherListingsOfLen(n - 1),
                         e \in OtherEntryKinds(n)}

InitRace ==
    /\ FioIdle
    /\ \E n \in 0..MaxFiles, te \in BOOLEAN : \E l \in RaceListingsOfLen(n) :
        RepStart(TRUE, l, te, "cli", <<>>, <<>>, NotADict("list"))
    /\ \/ OtherOff
       \/ /\ o_pc = "extract"
          /\ \E n \in 1..MaxFiles : o_listing \in OtherListingsOfLen(n)
          /\ o_cur = 1
          /\ o_filename = NoFile
          /\ o_raws = <<>>

NextRace ==
    \/ NextReport
    \/ other_extract
    \/ other_read
    \/ other_cleanup
    \/ other_return

SpecRace == InitRace /\ [][NextRace]_vars

\* --------------------------------------------- the class as a library
MaxCalls == 4

\* the directories the caller loads: empty, or one log (a streaming one, a
\* request/response one, one with the wrong unit)
ApiListings ==
    {<<>>}
    \cup {<<Entry(1, "nplog", TRUE, "none", Parsed(raw))>> :
            raw \in {StreamRaw(<<118>>, <<50>>, <<54, 52>>, GoodUnit),
                     RRRaw(<<118>>, <<50>>, <<49, 44, 49>>),
                     StreamRaw(<<118>>, <<50>>, <<54, 52>>, "bits/s")}}

\* no method is running: the instance is new, or a method has returned
Returned == rep_pc \in {"ready", "calc", "frame", "csv"}

\* the caller's next call: load_raw_data_from_netperf_logs on a directory,
\* calculate_performance_kpis or generate_report_dataframe, on the same
\* instance or on a new NetperfTestReporter().  raw_data_list and
\* perf_kpi_list are attributes of the class, which the methods change in
\* place (append) and never assign: a new instance finds them as they are.
\* df_report is assigned on the instance: a new instance finds None.
next_call ==
    /\ Returned
    /\ calls < MaxCalls
    /\ calls' = calls + 1
    /\ \E fresh \in BOOLEAN :
        IF fresh THEN df_report' = <<>> /\ has_report' = FALSE
        ELSE UNCHANGED frame_vars
    /\ \/ \E l \in ApiListings :
            /\ listing' = l
            /\ cur' = 1
            /\ rep_pc' = "extract"
       \/ /\ rep_pc' \in {"calc", "frame"}
          /\ UNCHANGED <<listing, cur>>
    /\ UNCHANGED <<result_path, arg, tmp_vars, filename, list_vars, csv_vars,
                   rc_vars, errors, rep_exit, ret>>
    /\ UNCHANGED <<fio_vars, other_vars>>

InitApi ==
    /\ FioIdle
    /\ RepStart(TRUE, <<>>, FALSE, "ready", <<>>, <<>>, NotADict("list"))
    /\ OtherOff

NextApi ==
    \/ next_call
    \/ load_extract
    \/ load_read
    \/ load_cleanup
    \/ load_return
    \/ calculate_performance_kpis
    \/ generate_report_dataframe
    \/ report_dataframe_to_csv

SpecApi == InitApi /\ [][NextApi]_vars

\* ------------------------------------ generate_report_dataframe alone
SortRaws ==
    UNION {{StreamRaw(d, r, <<54, 52>>, GoodUnit),
            StreamRaw(d, r, <<49, 48, 50, 52>>, GoodUnit),
            RRRaw(d, r, <<49, 44, 49>>)} :
           d \in {<<118>>, <<119>>}, r \in {<<50>>, <<49, 48>>}}
    \cup {OtherRaw(<<118>>, <<50>>)}

SortKpis == {get_kpis_from_raw_data(raw).kpi : raw \in SortRaws}

RECURSIVE KpiListsOfLen(_)
KpiListsOfLen(n) ==
    IF n = 0 THEN {<<>>}
    ELSE {Append(l, x) : l \in KpiListsOfLen(n - 1), x \in SortKpis}

InitSort ==
    /\ FioIdle
    /\ \E n \in 0..MaxRows : \E kpis \in KpiListsOfLen(n) :
        RepStart(TRUE, <<>>, FALSE, "frame", <<>>, kpis, NotADict("list"))
    /\ OtherOff

NextSort == generate_report_dataframe

SpecSort == InitSort /\ [][NextSort]_vars

\* =============================================== claims: RunFioTest.py
NCases(r) == NRounds(r) * NBs(r) * NIodepth(r) * NRw(r)

\* the k-th tuple (k >= 1) of the enumeration round -> bs -> iodepth -> rw,
\* rw varying fastest, computed from k alone
CaseAt(r, k) ==
    LET j == k - 1
        nw == NRw(r)
        ni == NIodepth(r)
        nb == NBs(r)
    IN  [rd |-> (j \div (nb * ni * nw)) + 1,
         bs |-> r["bs_list"].l[((j \div (ni * nw)) % nb) + 1],
         iodepth |-> r["iodepth_list"].l[((j \div nw) % ni) + 1],
         rw |-> r["rw_list"].l[(j % nw) + 1]]

Merged == fio_pc \notin {"idle", "cli"}
Checked == fio_pc \notin {"idle", "cli", "init"}

\* C1: a configuration the validation accepts is never rejected; the cases
\* handed to os.system so far are, in order, the first ones of the
\* enumeration round -> bs -> iodepth -> rw (rw fastest), each once; and when
\* the loop is over their number is rounds x |bs_list| x |iodepth_list| x
\* |rw_list|, whatever the invocations returned.
C1_SweepEnumeration ==
    (Merged /\ Validate(params)) =>
        /\ fio_exit # 1
        /\ Len(invoked) <= NCases(params)
        /\ \A k \in 1..Len(invoked) : invoked[k] = CaseAt(params, k)
        /\ (Checked /\ pos = Exhausted) => Len(invoked) = NCases(params)

C1_Witness ==
    /\ fio_pc = "exited"
    /\ fio_exit = 0
    /\ Len(invoked) = 8
    /\ NRounds(params) = 2
    /\ invoked[1].rw # invoked[2].rw
    /\ invoked[1].bs # invoked[8].bs
    /\ last_rc = 1

\* the type FioTestRunner.__init__ documents for a field, by its error
\* messages: "must be string", "must be an integer", "must be integer 0 or
\* 1", "must be a list or tuple"
WrongType(f, v) ==
    CASE f \in StrFields -> ~IsStr(v)
      [] f \in ListFields -> ~IsList(v)
      [] OTHER -> ~IsInt(v)

Rejected ==
    /\ fio_pc = "exited"
    /\ fio_exit = 1
    /\ invoked = <<>>
    /\ ~dir_made

\* C2: a merged configuration in which one of the twelve fields is missing or
\* has the wrong type ends the run with exit code 1, before any case is run
\* and with no output directory made.
C2_MissingOrWrongTypeRejected ==
    (Checked /\ \E f \in Fields :
                    params[f].t = "absent" \/ WrongType(f, params[f]))
        => Rejected

\* C9: a run given all twelve parameters as flags the CLI accepts passes the
\* validation, runs every case and exits with code 0.
C9_AllFlagsAccepted ==
    (Checked /\ \A f \in Fields : Truthy(argv[f])) =>
        /\ Validate(params)
        /\ fio_exit # 1
        /\ fio_pc = "exited" => Len(invoked) = NCases(params)

\* the ranges the CLI documents: rounds 1..1000, direct 0/1, numjobs 1..65535
OutOfRange(p) ==
    \/ IsInt(p["rounds"]) /\ p["rounds"].n \notin 1..RoundsMax
    \/ IsInt(p["direct"]) /\ p["direct"].n \notin {0, 1}
    \/ IsInt(p["numjobs"]) /\ p["numjobs"].n \notin 1..NumjobsMax

\* C10: a merged configuration whose rounds is outside 1..1000, whose direct
\* is not 0 or 1 or whose numjobs is outside 1..65535 ends the run with exit
\* code 1 before any case is run, wherever the value came from.
C10_RangesEnforced == (Checked /\ OutOfRange(params)) => Rejected

\* the log files a run leaves when every invocation wrote its log
LogFiles == {outputs[i] : i \in 1..Len(outputs)}

\* C11: within a run, two cases that differ (in round, bs, iodepth or rw) are
\* given different output paths, and a completed run in which every
\* invocation wrote its log leaves one log file per case.
C11_DistinctLogPaths ==
    /\ Len(outputs) = Len(invoked)
    /\ \A i, j \in 1..Len(outputs) :
        invoked[i] # invoked[j] => outputs[i] # outputs[j]
    /\ (fio_pc = "exited" /\ fio_exit = 0) =>
        Cardinality(LogFiles) = Len(invoked)

\* ================================ claims: GenerateNetworkTestReport.py
Last(s) == s[Len(s)]

\* C3: on a record with at least one SERIES_META key on which the extraction
\* succeeds: if every key is a streaming test the tuple has rrsize '0',
\* transrate 'NaN', msize = M_SIZE, and throughput and latency of the block
\* of a key (the last in the dict's order); if every key is a
\* request/response test it has msize '0', throughput 'NaN', rrsize =
\* RR_SIZE, and transrate and latency of that block.
C3_FamilyFields ==
    (ret.res = "pass" /\ arg.series # <<>>) =>
        /\ SeriesNames(arg.series) \subseteq StreamTests =>
            /\ ret.kpi.rrsize = StrC(<<48>>)
            /\ ret.kpi.transrate = StrC(<<78, 97, 78>>)
            /\ ret.kpi.msize = arg.m_size
            /\ ret.kpi.throughput = Last(arg.series).throughput
            /\ ret.kpi.latency = Last(arg.series).latency
        /\ SeriesNames(arg.series) \subseteq RRTests =>
            /\ ret.kpi.msize = StrC(<<48>>)
            /\ ret.kpi.throughput = StrC(<<78, 97, 78>>)
            /\ ret.kpi.rrsize = arg.rr_size
            /\ ret.kpi.transrate = Last(arg.series).transrate
            /\ ret.kpi.latency = Last(arg.series).latency

C3_Witness ==
    /\ ret.res = "pass"
    /\ Len(arg.series) = 2
    /\ SeriesNames(arg.series) \subseteq RRTests
    /\ ret.kpi.msize = StrC(<<48>>)
    /\ ret.kpi.latency = NumC(252)

EndsWith(s, suffix) ==
    /\ Len(s) >= Len(suffix)
    /\ SubSeq(s, Len(s) - Len(suffix) + 1, Len(s)) = suffix

\* the families by the identifier's ending: STREAM or MAERTS, RR or CRR
EndsInStream(name) ==
    \/ EndsWith(Chars(name), <<83, 84, 82, 69, 65, 77>>)
    \/ EndsWith(Chars(name), <<77, 65, 69, 82, 84, 83>>)

EndsInRR(name) ==
    \/ EndsWith(Chars(name), <<82, 82>>)
    \/ EndsWith(Chars(name), <<67, 82, 82>>)

Complete(kpi) ==
    /\ kpi.msize # Unset /\ kpi.rrsize # Unset /\ kpi.throughput # Unset
    /\ kpi.transrate # Unset /\ kpi.latency # Unset

\* C12: on a record with at least one SERIES_META key on which the
\* extraction succeeds: if every key ends in STREAM or MAERTS the tuple is
\* complete and follows the streaming rule (msize = M_SIZE, rrsize '0',
\* transrate 'NaN'); if every key ends in RR or CRR it is complete and
\* follows the request/response rule (msize '0', rrsize = RR_SIZE,
\* throughput 'NaN').
C12_FamilyBySuffix ==
    (ret.res = "pass" /\ arg.series # <<>>) =>
        /\ (\A nm \in SeriesNames(arg.series) : EndsInStream(nm)) =>
            /\ Complete(ret.kpi)
            /\ ret.kpi.msize = arg.m_size
            /\ ret.kpi.rrsize = Zero
            /\ ret.kpi.transrate = NaN
        /\ (\A nm \in SeriesNames(arg.series) : EndsInRR(nm)) =>
            /\ Complete(ret.kpi)
            /\ ret.kpi.msize = Zero
            /\ ret.kpi.rrsize = arg.rr_size
            /\ ret.kpi.throughput = NaN

\* what the entry adds to raw_data_list: a *.nplog.json file, or the expected
\* log of an archive, that can be read and parsed
IsLog(e) == e.suffix = "nplog" /\ e.isfile
HoldsLog(e) == e.suffix = "targz" /\ e.isfile /\ e.member = "own"
Valid(e) == (IsLog(e) \/ HoldsLog(e)) /\ e.file.read = "ok"
Broken(e) == (IsLog(e) \/ HoldsLog(e)) /\ e.file.read # "ok"

\* the entries the loop has read so far
NRead == IF rep_pc = "cleanup" THEN cur ELSE cur - 1

RECURSIVE RawsOf(_, _)
RawsOf(l, n) ==
    IF n = 0 THEN <<>>
    ELSE IF Valid(l[n]) THEN Append(RawsOf(l, n - 1), l[n].file.data)
    ELSE RawsOf(l, n - 1)

Loading == rep_pc \in {"extract", "read", "cleanup"}

\* the load never fails, returns only at the end of the listing, and the
\* later stages start only once it has returned
ScanCompletes ==
    /\ load_rc \in {"notrun", "pass"}
    /\ load_rc = "pass" => NRead = Len(listing)
    /\ (result_path /\ ~Loading /\ rep_pc # "cli") => load_rc = "pass"

\* what the step that reads an entry of the directory itself does to
\* raw_data_list and to the errors printed
ReadOfEntry ==
    (rep_pc = "read" /\ filename.dir = "result") =>
        LET e == listing[cur]
        IN  /\ raw_data_list' =
                 IF IsLog(e) /\ e.file.read = "ok"
                 THEN Append(raw_data_list, e.file.data) ELSE raw_data_list
            /\ errors' =
                 IF IsLog(e) /\ e.file.read # "ok"
                 THEN Append(errors, "json") ELSE errors
            /\ rep_pc' = "cleanup"

\* C4: a *.nplog.json file that cannot be read or parsed adds no entry to
\* raw_data_list and prints one error, one that parses adds exactly its
\* record, any other entry of the directory adds nothing; the scan goes on
\* to the end of the listing whatever the files held, and the load returns 0.
C4_BadLogSkipped == []ScanCompletes /\ [][ReadOfEntry]_vars

C4_Witness ==
    /\ load_rc = "pass"
    /\ Len(listing) = 2
    /\ IsLog(listing[1]) /\ listing[1].file.read = "badjson"
    /\ IsLog(listing[2]) /\ Valid(listing[2])
    /\ Len(raw_data_list) = 1
    /\ errors # <<>>

\* a record on which the extraction fails
UnitMismatch(raw) ==
    /\ raw.shape = "dict"
    /\ \E j \in 1..Len(raw.series) :
        raw.series[j].name \in StreamTests /\ raw.series[j].unit # GoodUnit

LacksRequired(raw) ==
    /\ raw.shape = "dict"
    /\ raw.miss \cap {"metadata", "DRIVER", "ROUNDS", "NAME", "SERIES_META"}
         # {}

FailsExtraction(raw) ==
    \/ UnitMismatch(raw)
    \/ LacksRequired(raw)
    \/ get_kpis_from_raw_data(raw).res # "pass"

\* C5: once the load has returned with a record on which the extraction
\* fails, no report table is made, the CSV stage never runs, no CSV file is
\* written, and the process ends with exit code 1, whatever the other
\* records are.
C5_ExtractionFailureFatal ==
    (load_rc = "pass"
     /\ \E i \in 1..Len(raw_data_list) : FailsExtraction(raw_data_list[i])) =>
        /\ ~has_report
        /\ csv_rc = "notrun"
        /\ csv_file = "none"
        /\ rep_exit # 0
        /\ rep_pc # "calc" => (rep_pc = "exited" /\ rep_exit = 1)

C5_Witness ==
    /\ rep_pc = "exited"
    /\ rep_exit = 1
    /\ calc_rc = "raise"
    /\ Len(raw_data_list) = 2
    /\ ~FailsExtraction(raw_data_list[1])
    /\ UnitMismatch(raw_data_list[2])
    /\ Len(perf_kpi_list) = 1

\* the sort key of a row, compared column by column
KeyLess(r1, r2) ==
    \E c \in 1..Len(KeyColumns) :
        /\ \A b \in 1..(c - 1) : r1[KeyColumns[b]] = r2[KeyColumns[b]]
        /\ CellLess(r1[KeyColumns[c]], r2[KeyColumns[c]])

\* the row is the tuple, its numbers possibly rounded
IsRowOf(row, kpi) ==
    /\ row.Driver = kpi.driver /\ row.Test = kpi.test
    /\ row.MSize = kpi.msize /\ row.RRSize = kpi.rrsize
    /\ row.Round = kpi.round
    /\ row.Throughput \in {kpi.throughput, NumC(Round4(kpi.throughput.n))}
    /\ row.TransRate \in {kpi.transrate, NumC(Round4(kpi.transrate.n))}
    /\ row.Latency \in {kpi.latency, NumC(Round4(kpi.latency.n))}

\* C6: after generate_report_dataframe the table's rows are the tuples of
\* perf_kpi_list, each once (a permutation of them), no row's key is greater
\* than the key of a later row, so that the order of rows of different keys
\* is fixed by the keys alone, and the rows are labelled 0..n-1 in order.
C6_SortedReindexed ==
    has_report =>
        /\ Len(df_report) = Len(perf_kpi_list)
        /\ \E pi \in Permutations(1..Len(df_report)) :
            \A i \in 1..Len(df_report) :
                IsRowOf(df_report[i], perf_kpi_list[pi[i]])
        /\ \A i, j \in 1..Len(df_report) :
            i < j => ~KeyLess(df_report[j], df_report[i])
        /\ \A i \in 1..Len(df_report) : df_report[i].idx = i - 1

C6_Witness ==
    /\ has_report
    /\ Len(df_report) = 3
    /\ IsRowOf(df_report[1], perf_kpi_list[3])
    /\ IsRowOf(df_report[3], perf_kpi_list[1])
    /\ KeyLess(df_report[1], df_report[2])
    /\ KeyLess(df_report[2], df_report[3])

\* C7: an archive adds one raw record, its expected log's, when that log is
\* there and parses, and none otherwise; once an entry has been handled, and
\* so when the load of a directory holding an archive returns, the scratch
\* directory does not exist; each record makes one KPI tuple and one row.
C7_ArchiveExtractedAndCleaned ==
    /\ (rep_pc = "cleanup" /\ listing[cur].suffix = "targz"
        /\ listing[cur].isfile) =>
            /\ Len(raw_data_list)
                 = Cardinality({i \in 1..cur : Valid(listing[i])})
            /\ HoldsLog(listing[cur]) /\ listing[cur].file.read = "ok" =>
                 /\ raw_data_list # <<>>
                 /\ Last(raw_data_list) = listing[cur].file.data
    /\ (rep_pc = "extract" /\ cur > 1) => (~tmp_exists /\ tmp_files = {})
    /\ (load_rc = "pass" /\ listing # <<>>) => (~tmp_exists /\ tmp_files = {})
    /\ calc_rc = "pass" => Len(perf_kpi_list) = Len(raw_data_list)
    /\ has_report => Len(df_report) = Len(raw_data_list)

\* the entry's log reaches the read when nothing else touches the scratch
\* directory: a plain log, or the log the invocation's own tar extracted
Delivered(e) == Valid(e) /\ (HoldsLog(e) => e.shellword)

RECURSIVE OwnRaws(_, _)
OwnRaws(l, n) ==
    IF n = 0 THEN <<>>
    ELSE IF Delivered(l[n]) THEN Append(OwnRaws(l, n - 1), l[n].file.data)
    ELSE OwnRaws(l, n - 1)

\* C13: an invocation that runs with no other one reads from the scratch
\* directory exactly what its own tar has put there, and when its load
\* returns raw_data_list holds the record of every log delivered to it, in
\* order: a record can go missing (or a foreign one be read) only when a
\* second invocation runs at the same time.
C13_ScratchRace ==
    /\ (o_pc = "off" /\ rep_pc = "read" /\ filename.dir = "tmp") =>
        tmp_files = TarExtract(listing[cur], {})
    /\ (o_pc = "off" /\ load_rc = "pass") =>
        raw_data_list = OwnRaws(listing, Len(listing))

\* the race: the first invocation's archive held a valid log that its tar
\* extracted, the second one's cleanup removed it before the read, the
\* record is missing and the first invocation exits 0
C13_Witness ==
    /\ o_pc = "done"
    /\ rep_pc = "exited"
    /\ rep_exit = 0
    /\ Len(listing) = 1
    /\ HoldsLog(listing[1]) /\ Delivered(listing[1])
    /\ raw_data_list = <<>>
    /\ df_report = <<>>

IsPrefix(a, b) == Len(a) <= Len(b) /\ SubSeq(b, 1, Len(a)) = a

\* the tuples of all the records of a list
KpisOf(raws) == [i \in 1..Len(raws) |-> get_kpis_from_raw_data(raws[i]).kpi]

\* what a step of the library's use does to the two lists
ListsAccumulate ==
    /\ IsPrefix(raw_data_list, raw_data_list')
    /\ IsPrefix(perf_kpi_list, perf_kpi_list')
    /\ calls' # calls => UNCHANGED list_vars
    /\ (rep_pc = "calc" /\ calls' = calls /\ calc_rc' = "pass") =>
        perf_kpi_list' = perf_kpi_list \o KpisOf(raw_data_list)
    /\ (rep_pc = "frame" /\ calls' = calls) =>
        Len(df_report') = Len(perf_kpi_list)

\* C14: whatever the sequence of calls, on one instance or on new ones, no
\* step removes or changes an entry of raw_data_list or perf_kpi_list; a call
\* on a new instance finds both lists as the earlier calls left them; a
\* calculate_performance_kpis that passes appends one tuple for every record
\* of raw_data_list, those already processed included; and the report made
\* next has a row for every tuple of perf_kpi_list.
C14_SharedListsAccumulate == [][ListsAccumulate]_vars

\* one record loaded, the KPIs calculated twice, the report made on a new
\* instance: two rows for the one record
C14_Witness ==
    /\ calls = 4
    /\ has_report
    /\ Len(raw_data_list) = 1
    /\ Len(perf_kpi_list) = 2
    /\ perf_kpi_list[1] = perf_kpi_list[2]
    /\ Len(df_report) = 2

\* a parsed record with its metadata, none of whose SERIES_META keys is in
\* either of the code's two tuples of names
Unrecognized(raw) ==
    /\ raw.shape = "dict"
    /\ ~Lacks(raw, {"metadata", "DRIVER", "ROUNDS", "NAME", "SERIES_META"})
    /\ \A j \in 1..Len(raw.series) :
        raw.series[j].name \notin (StreamTests \cup RRTests)

\* the tuple that holds driver, round and test only
BareKpi(raw) ==
    [EmptyKpi EXCEPT !.driver = raw.driver, !.round = raw.rounds,
                     !.test = raw.name]

BareRow(row, raw) ==
    /\ row.Driver = raw.driver /\ row.Round = raw.rounds
    /\ row.Test = raw.name
    /\ row.MSize = Unset /\ row.RRSize = Unset /\ row.Throughput = Unset
    /\ row.TransRate = Unset /\ row.Latency = Unset

\* C15: for every loaded record none of whose SERIES_META keys is
\* recognized, the extraction returns pass with a tuple of driver, round and
\* test only; once the calculation has passed that tuple is in perf_kpi_list
\* at the record's place; once the report is made it has a row with the five
\* other fields empty; and when every record is extracted and the CSV is
\* written the process exits with code 0.
C15_UnrecognizedTestSilent ==
    \A i \in 1..Len(raw_data_list) :
        Unrecognized(raw_data_list[i]) =>
            /\ get_kpis_from_raw_data(raw_data_list[i])
                 = [res |-> "pass", kpi |-> BareKpi(raw_data_list[i])]
            /\ calc_rc = "pass" =>
                 perf_kpi_list[i] = BareKpi(raw_data_list[i])
            /\ has_report =>
                 \E k \in 1..Len(df_report) :
                    BareRow(df_report[k], raw_data_list[i])
            /\ (rep_pc = "exited" /\ csv_env = "ok"
                /\ \A j \in 1..Len(raw_data_list) :
                        ~FailsExtraction(raw_data_list[j])) =>
                 /\ rep_exit = 0
                 /\ csv_file = "written"
                 /\ \E k \in 1..Len(csv_rows) :
                        BareRow(csv_rows[k], raw_data_list[i])

C15_Witness ==
    /\ rep_pc = "exited"
    /\ rep_exit = 0
    /\ Len(raw_data_list) = 2
    /\ Unrecognized(raw_data_list[1])
    /\ raw_data_list[1].series # <<>>
    /\ ~Unrecognized(raw_data_list[2])
    /\ Len(csv_rows) = 2
    /\ BareRow(csv_rows[2], raw_data_list[1])

\* C8: the process exits 0 exactly when the load, the KPI calculation and the
\* CSV write all passed; a stage runs only after the one before it passed;
\* when the CSV path cannot be written the write returns failure, an error is
\* printed and the exit code is 1.
C8_ExitCodeMirrorsStages ==
    /\ rep_pc = "exited" =>
        /\ rep_exit \in {0, 1}
        /\ rep_exit = 0 <=>
            (load_rc = "pass" /\ calc_rc = "pass" /\ csv_rc = "pass")
    /\ rep_pc # "exited" => rep_exit = -1
    /\ calc_rc # "notrun" => load_rc = "pass"
    /\ has_report => calc_rc = "pass"
    /\ csv_rc # "notrun" => (has_report /\ rep_pc = "exited")
    /\ csv_env \in {"open_fails", "write_fails"} =>
        /\ csv_rc = "fail"
        /\ rep_exit = 1
        /\ errors # <<>> /\ Last(errors) = "csv"
        /\ csv_file # "written"

C8_Witness ==
    /\ rep_pc = "exited"
    /\ csv_env = "open_fails"
    /\ rep_exit = 1
    /\ load_rc = "pass" /\ calc_rc = "pass"
    /\ Len(df_report) = 2

====
